---- MODULE Spec2Model ----
(***************************************************************************)
(* Model of tools/face_composite.py: the face-compositing pipeline         *)
(* (composite_face), its lazily initialised analyzer (get_face_app) and    *)
(* the command line entry point (main).                                    *)
(*                                                                         *)
(* One process is modelled.  It is either one run of main (which ends in   *)
(* sys.exit) or a program that imports the module and calls                *)
(* composite_face up to MaxCalls times.  Every call into cv2 / insightface *)
(* is an external call whose outcome (value, None, exception) is chosen    *)
(* nondeterministically.                                                   *)
(***************************************************************************)
EXTENDS Integers, Sequences, FiniteSets, TLC

\* ------------------------------------------------------------------ bounds
\* number of composite_face calls a library user makes in one process
MaxCalls == 2
\* page image width and height, in pixels
ImgW == 8
ImgH == 8
\* longest list of faces the analyzer returns where select_main_face is examined
MaxFaces == 3
\* pixels of the images where color_match_lab is examined
NPix == 3

\* ------------------------------------------------------------- vocabulary
\* Python None; an optional value v is <<v>> (an empty list is as falsy as None)
None == <<>>

\* what a path on disk is: absent, present but not decodable, an image
FileStatus == {"missing", "unreadable", "ok"}

\* outcome of the try block of get_face_app
InitOutcomes == {"ctor_raises", "prepare_raises", "ok"}

\* the eight kinds the error-handling section enumerates
EnumeratedKinds ==
  {"DEPENDENCIES_MISSING", "FACE_DETECTOR_UNAVAILABLE", "HERO_HEAD_NOT_FOUND",
   "PAGE_IMAGE_NOT_FOUND", "NO_FACE_IN_HERO", "NO_FACE_IN_PAGE",
   "PAGE_FACE_DETECTION_FAILED", "TRANSFORM_FAILED"}

\* the order in which composite_face issues its external operations
CodeOrder ==
  <<"get_face_app", "imread_hero", "imread_page", "detect_hero",
    "detect_page", "select_main_face", "estimate", "warpAffine", "mask",
    "color_match_lab", "blend", "imwrite">>

\* the order the orchestrator section of the specification states
StatedOrder ==
  <<"get_face_app", "imread_hero", "detect_hero", "imread_page",
    "detect_page", "select_main_face", "estimate", "warpAffine", "mask",
    "color_match_lab", "blend", "imwrite">>

\* ------------------------------------------------------------------ faces
\* a face the analyzer returns: bbox = <<x1, y1, x2, y2>>, kps present or not
Face(x1, y1, x2, y2, k) == [bbox |-> <<x1, y1, x2, y2>>, kps |-> k]

\* what face_app.get(page) can return (besides raising)
PageDetections ==
  { <<>>,
    << Face(2, 2, 6, 6, TRUE) >>,
    << Face(2, 2, 6, 6, FALSE) >>,
    << Face(3, 3, 5, 5, TRUE), Face(0, 0, 4, 4, TRUE) >>,
    << Face(0, 0, 4, 4, FALSE), Face(3, 3, 5, 5, TRUE) >>,
    << Face(0, 0, 2, 2, TRUE), Face(6, 6, 8, 8, TRUE) >> }

\* what face_app.get(hero) can return (besides raising)
HeroDetections ==
  { <<>>,
    << Face(1, 1, 5, 5, TRUE) >>,
    << Face(1, 1, 5, 5, FALSE) >>,
    << Face(1, 1, 3, 3, FALSE), Face(2, 2, 7, 7, TRUE) >> }

area(bbox) == (bbox[3] - bbox[1]) * (bbox[4] - bbox[2])

\* 4 * dist_to_center^2 for an image of size w x h (an integer)
dist2x4(bbox, w, h) ==
  (bbox[1] + bbox[3] - w) * (bbox[1] + bbox[3] - w)
  + (bbox[2] + bbox[4] - h) * (bbox[2] + bbox[4] - h)

\* score_face(f) > score_face(g), where score = area - 10 * dist_to_center
\*   = area - 5 * sqrt(dist2x4); decided exactly over the integers
score_gt(f, g, w, h) ==
  LET A  == area(f.bbox) - area(g.bbox)
      D1 == dist2x4(f.bbox, w, h)
      D2 == dist2x4(g.bbox, w, h)
      K  == 25 * D1 - 25 * D2 - A * A
      \* A + 5 sqrt(D2) > 0
      LeftPos == \/ A > 0
                 \/ A = 0 /\ D2 > 0
                 \/ A < 0 /\ 25 * D2 > A * A
      \* 10 A sqrt(D2) > K
      SqGt == IF A >= 0
              THEN K < 0 \/ 100 * A * A * D2 > K * K
              ELSE K < 0 /\ 100 * A * A * D2 < K * K
  IN LeftPos /\ SqGt

\* the loop of max(): i is the next index, best the index kept so far; an
\* item replaces the kept one only when its key is strictly greater
RECURSIVE key_fold(_, _, _, _)
key_fold(n, gt, i, best) ==
  IF i > n THEN best
  ELSE key_fold(n, gt, i + 1, IF <<i, best>> \in gt THEN i ELSE best)

\* max() replacing the kept item also when the keys are equal
key_max_LastWins(faces, gt) ==
  faces[key_fold(Len(faces),
                 {ij \in (1..Len(faces)) \X (1..Len(faces)) :
                    <<ij[2], ij[1]>> \notin gt}, 2, 1)]

\* max(faces, key=...); gt is the set of the pairs <<i, j>> with
\* key(faces[i]) > key(faces[j])
key_max(faces, gt) == faces[key_fold(Len(faces), gt, 2, 1)]

select_main_face(faces, w, h) ==
  IF faces = None THEN None
  ELSE IF Len(faces) = 1 THEN <<faces[1]>>
  ELSE <<key_max(faces, {ij \in (1..Len(faces)) \X (1..Len(faces)) :
                           score_gt(faces[ij[1]], faces[ij[2]], w, h)})>>

\* the key of detect_face_landmarks: bbox area
area_gt(f, g) == area(f.bbox) > area(g.bbox)

\* outcome of one face_app.get(image) call
GetOutcomes(lists) ==
  {[raises |-> TRUE, faces |-> <<>>]}
  \cup {[raises |-> FALSE, faces |-> l] : l \in lists}

NotDetected == [landmarks |-> None, bbox |-> None, detected |-> FALSE]

\* detect_face_landmarks(image, face_app), o the outcome of face_app.get
detect_face_landmarks(handle, o) ==
  IF handle = None THEN NotDetected
  ELSE IF o.raises THEN NotDetected
  ELSE IF o.faces = <<>> THEN NotDetected
  ELSE LET best_face ==
             key_max(o.faces, {ij \in (1..Len(o.faces)) \X (1..Len(o.faces)) :
                                 area_gt(o.faces[ij[1]], o.faces[ij[2]])})
       IN IF ~ best_face.kps THEN NotDetected
          ELSE [landmarks |-> <<"kps">>, bbox |-> <<best_face.bbox>>,
                detected |-> TRUE]

\* ------------------------------------------------------------------ state
VARIABLES
  DEPENDENCIES_AVAILABLE,  \* module level: cv2 and numpy imported
  INSIGHTFACE_AVAILABLE,   \* module level: insightface imported
  _face_app,               \* the global analyzer: None or <<object id>>
  prepared,                \* ids of the analyzer objects prepare() completed on
  ctor_calls,              \* FaceAnalysis(...) calls made by the process
  prepare_calls,           \* prepare(...) calls made by the process
  init_failed,             \* get_face_app calls that ended in the except branch
  pc,                      \* position of the process
  mode,                    \* "none", "cli" (main runs) or "lib" (composite_face called)
  ncalls,                  \* composite_face calls made so far
  argv,                    \* command line of a cli process
  frame,                   \* parameters and locals of the composite_face call
  trace,                   \* stages the current call has executed, in order
  ext,                     \* external calls of the current call: <<name, outcome>>
  result,                  \* None, or <<the dict composite_face returned>>
  raised,                  \* an exception left composite_face / main
  written,                 \* the output image was written by the current call
  stdout,                  \* the JSON objects printed on standard output
  exit_code                \* None, or <<the exit status of the process>>

env  == <<DEPENDENCIES_AVAILABLE, INSIGHTFACE_AVAILABLE>>
glob == <<_face_app, prepared, ctor_calls, prepare_calls, init_failed>>
proc == <<mode, ncalls, argv>>
out  == <<result, raised, written, stdout, exit_code>>
vars == <<env, glob, proc, pc, frame, trace, ext, out>>

NoArgv == [valid |-> FALSE, hero_head |-> "missing", page_image |-> "missing",
           include_hair_flag |-> FALSE, no_hair |-> FALSE]

\* a command line argparse accepts, or one it rejects (a required flag
\* missing, an unknown flag)
Argvs ==
  [valid : {TRUE}, hero_head : FileStatus, page_image : FileStatus,
   include_hair_flag : BOOLEAN, no_hair : BOOLEAN]
  \cup {NoArgv}

\* the locals of composite_face at entry
NewFrame(hero_head_path, page_image_path, include_hair) ==
  [hero_head_path |-> hero_head_path, page_image_path |-> page_image_path,
   include_hair |-> include_hair,
   face_app |-> None, hero |-> None, page |-> None,
   hero_detected |-> FALSE, hero_bbox |-> None,
   page_faces |-> None, main_face |-> None, page_bbox |-> None,
   transform |-> None, mask |-> None, center |-> None, blend_method |-> None]

\* the modules insightface needs include numpy and cv2, so insightface is
\* importable only where they are
Init ==
  /\ DEPENDENCIES_AVAILABLE \in BOOLEAN
  /\ INSIGHTFACE_AVAILABLE \in BOOLEAN
  /\ INSIGHTFACE_AVAILABLE => DEPENDENCIES_AVAILABLE
  /\ _face_app = None
  /\ prepared = {}
  /\ ctor_calls = 0
  /\ prepare_calls = 0
  /\ init_failed = 0
  /\ pc = "start"
  /\ mode = "none"
  /\ ncalls = 0
  /\ argv = NoArgv
  /\ frame = NewFrame("ok", "ok", TRUE)
  /\ trace = <<>>
  /\ ext = <<>>
  /\ result = None
  /\ raised = FALSE
  /\ written = FALSE
  /\ stdout = <<>>
  /\ exit_code = None

\* ------------------------------------------------------- control transfer
Goto(label) == pc' = label /\ UNCHANGED out

\* return r from composite_face: back to main, or to the library caller
Return(r) ==
  /\ result' = <<r>>
  /\ pc' = IF mode = "cli" THEN "main_print" ELSE "idle"
  /\ UNCHANGED <<raised, written, stdout, exit_code>>

\* an exception nothing catches: a cli process dies with status 1 and a
\* traceback on stderr; a library caller gets the exception
Raise ==
  /\ raised' = TRUE
  /\ pc' = IF mode = "cli" THEN "exited" ELSE "idle"
  /\ exit_code' = IF mode = "cli" THEN <<1>> ELSE exit_code
  /\ UNCHANGED <<result, written, stdout>>

Failure(kind, msg) == [ok |-> FALSE, error |-> kind, message |-> msg]

Log(stage, call, outcome) ==
  /\ trace' = Append(trace, stage)
  /\ ext' = Append(ext, <<call, outcome>>)

\* get_face_app without the "_face_app is None" test: every call initialises
get_face_app_NoCache(init) ==
  IF INSIGHTFACE_AVAILABLE
  THEN /\ ctor_calls' = ctor_calls + 1
       /\ IF init = "ctor_raises"
          THEN /\ UNCHANGED <<_face_app, prepared, prepare_calls>>
               /\ init_failed' = init_failed + 1
               /\ frame' = [frame EXCEPT !.face_app = None]
               /\ Log("get_face_app", "FaceAnalysis", "raise")
          ELSE IF init = "prepare_raises"
          THEN /\ _face_app' = <<ctor_calls + 1>>
               /\ prepare_calls' = prepare_calls + 1
               /\ UNCHANGED prepared
               /\ init_failed' = init_failed + 1
               /\ frame' = [frame EXCEPT !.face_app = None]
               /\ Log("get_face_app", "prepare", "raise")
          ELSE /\ _face_app' = <<ctor_calls + 1>>
               /\ prepare_calls' = prepare_calls + 1
               /\ prepared' = prepared \cup {ctor_calls + 1}
               /\ UNCHANGED init_failed
               /\ frame' = [frame EXCEPT !.face_app = <<ctor_calls + 1>>]
               /\ Log("get_face_app", "prepare", "ok")
  ELSE /\ UNCHANGED glob
       /\ frame' = [frame EXCEPT !.face_app = _face_app]
       /\ Log("get_face_app", "no_init", "ok")

\* ---------------------------------------------------------- get_face_app
\* get_face_app(): the value returned is left in frame.face_app
get_face_app(init) ==
  IF _face_app = None /\ INSIGHTFACE_AVAILABLE
  THEN /\ ctor_calls' = ctor_calls + 1
       /\ IF init = "ctor_raises"
          THEN \* FaceAnalysis(...) raised: the global was not assigned
               /\ UNCHANGED <<_face_app, prepared, prepare_calls>>
               /\ init_failed' = init_failed + 1
               /\ frame' = [frame EXCEPT !.face_app = None]
               /\ Log("get_face_app", "FaceAnalysis", "raise")
          ELSE IF init = "prepare_raises"
          THEN \* the global was assigned before prepare(...) raised
               /\ _face_app' = <<ctor_calls + 1>>
               /\ prepare_calls' = prepare_calls + 1
               /\ UNCHANGED prepared
               /\ init_failed' = init_failed + 1
               /\ frame' = [frame EXCEPT !.face_app = None]
               /\ Log("get_face_app", "prepare", "raise")
          ELSE /\ _face_app' = <<ctor_calls + 1>>
               /\ prepare_calls' = prepare_calls + 1
               /\ prepared' = prepared \cup {ctor_calls + 1}
               /\ UNCHANGED init_failed
               /\ frame' = [frame EXCEPT !.face_app = <<ctor_calls + 1>>]
               /\ Log("get_face_app", "prepare", "ok")
  ELSE /\ UNCHANGED glob
       /\ frame' = [frame EXCEPT !.face_app = _face_app]
       /\ Log("get_face_app", "no_init", "ok")

\* ---------------------------------------------------------- composite_face
\* a library caller calls composite_face(hero_head_path, page_image_path,
\* output_path, include_hair)
CompositeCall ==
  /\ pc \in {"start", "idle"}
  /\ ncalls < MaxCalls
  /\ \E h \in FileStatus, p \in FileStatus, ih \in BOOLEAN :
       frame' = NewFrame(h, p, ih)
  /\ mode' = "lib"
  /\ ncalls' = ncalls + 1
  /\ pc' = "get_face_app"
  /\ trace' = <<>>
  /\ ext' = <<>>
  /\ result' = None
  /\ raised' = FALSE
  /\ written' = FALSE
  /\ UNCHANGED <<env, glob, argv, stdout, exit_code>>

\* face_app = get_face_app()
GetFaceApp ==
  /\ pc = "get_face_app"
  /\ \E init \in InitOutcomes : get_face_app(init)
  /\ Goto("check_face_app")
  /\ UNCHANGED <<env, proc>>

\* if face_app is None: return FACE_DETECTOR_UNAVAILABLE
CheckFaceApp ==
  /\ pc = "check_face_app"
  /\ IF frame.face_app = None
     THEN Return(Failure("FACE_DETECTOR_UNAVAILABLE", "InsightFace not available"))
     ELSE Goto("imread_hero")
  /\ UNCHANGED <<env, glob, proc, frame, trace, ext>>

\* cv2.imread: None for a path that is absent or cannot be decoded
imread(path, name) == IF path = "ok" THEN <<name>> ELSE None

\* hero = cv2.imread(hero_head_path)
LoadHero ==
  /\ pc = "imread_hero"
  /\ frame' = [frame EXCEPT !.hero = imread(frame.hero_head_path, "hero")]
  /\ Log("imread_hero", "imread", frame.hero_head_path)
  /\ Goto("imread_page")
  /\ UNCHANGED <<env, glob, proc>>

\* page = cv2.imread(page_image_path)
LoadPage ==
  /\ pc = "imread_page"
  /\ frame' = [frame EXCEPT !.page = imread(frame.page_image_path, "page")]
  /\ Log("imread_page", "imread", frame.page_image_path)
  /\ Goto("check_images")
  /\ UNCHANGED <<env, glob, proc>>

\* CheckImages going on to the page detection, the hero detection left out
CheckImages_SkipHero ==
  /\ pc = "check_images"
  /\ IF frame.hero = None
     THEN Return(Failure("HERO_HEAD_NOT_FOUND", "Cannot read hero_head"))
     ELSE IF frame.page = None
     THEN Return(Failure("PAGE_IMAGE_NOT_FOUND", "Cannot read page image"))
     ELSE Goto("detect_page")
  /\ UNCHANGED <<env, glob, proc, frame, trace, ext>>

\* if hero is None: ... if page is None: ...
CheckImages ==
  /\ pc = "check_images"
  /\ IF frame.hero = None
     THEN Return(Failure("HERO_HEAD_NOT_FOUND", "Cannot read hero_head"))
     ELSE IF frame.page = None
     THEN Return(Failure("PAGE_IMAGE_NOT_FOUND", "Cannot read page image"))
     ELSE Goto("detect_hero")
  /\ UNCHANGED <<env, glob, proc, frame, trace, ext>>

\* how a face_app.get call went: it raised, found nothing, found a face
\* without keypoints where keypoints are needed, or found faces
GetOutcomeName(o, usable) ==
  IF o.raises THEN "raise"
  ELSE IF o.faces = <<>> THEN "empty"
  ELSE IF ~ usable THEN "nokps" ELSE "faces"

\* DetectHero without the early return on "not hero_detected"
DetectHero_Continue ==
  /\ pc = "detect_hero"
  /\ \E o \in GetOutcomes(HeroDetections) :
       LET d == detect_face_landmarks(frame.face_app, o)
       IN /\ frame' = [frame EXCEPT !.hero_detected = d.detected,
                                    !.hero_bbox = d.bbox]
          /\ Log("detect_hero", "get_hero", GetOutcomeName(o, d.detected))
          /\ Goto("detect_page")
  /\ UNCHANGED <<env, glob, proc>>

\* hero_landmarks, hero_bbox, hero_detected = detect_face_landmarks(hero, face_app)
\* if not hero_detected: return NO_FACE_IN_HERO
DetectHero ==
  /\ pc = "detect_hero"
  /\ \E o \in GetOutcomes(HeroDetections) :
       LET d == detect_face_landmarks(frame.face_app, o)
       IN /\ frame' = [frame EXCEPT !.hero_detected = d.detected,
                                    !.hero_bbox = d.bbox]
          /\ Log("detect_hero", "get_hero", GetOutcomeName(o, d.detected))
          /\ IF ~ d.detected
             THEN Return(Failure("NO_FACE_IN_HERO",
                                 "No face detected in hero_head image"))
             ELSE Goto("detect_page")
  /\ UNCHANGED <<env, glob, proc>>

\* DetectPageFrom with the reads of main_face.kps / main_face.bbox after
\* the try block instead of inside it
DetectPageFrom_KpsOutsideTry(lists) ==
  /\ pc = "detect_page"
  /\ \E o \in GetOutcomes(lists) :
       LET page_faces == o.faces
           main_face == IF page_faces # <<>>
                        THEN select_main_face(page_faces, ImgW, ImgH)
                        ELSE None
           stages == IF o.raises \/ page_faces = <<>>
                     THEN <<"detect_page">>
                     ELSE <<"detect_page", "select_main_face">>
       IN /\ trace' = trace \o stages
          /\ ext' = Append(ext, <<"get_page",
                 GetOutcomeName(o, main_face # None /\ main_face[1].kps)>>)
          /\ IF o.raises
             THEN /\ UNCHANGED frame
                  /\ Return(Failure("PAGE_FACE_DETECTION_FAILED", "str(e)"))
             ELSE IF main_face = None
             THEN /\ frame' = [frame EXCEPT !.page_faces = page_faces]
                  /\ Return(Failure("NO_FACE_IN_PAGE",
                                    "No face detected in page image"))
             ELSE IF ~ main_face[1].kps
             THEN /\ frame' = [frame EXCEPT !.page_faces = page_faces,
                                            !.main_face = main_face]
                  /\ Raise
             ELSE /\ frame' = [frame EXCEPT !.page_faces = page_faces,
                                            !.main_face = main_face,
                                            !.page_bbox = <<main_face[1].bbox>>]
                  /\ Goto("compute_transform")
  /\ UNCHANGED <<env, glob, proc>>

\* the try block around face_app.get(page), select_main_face and the reads
\* of main_face.kps / main_face.bbox; lists is what the analyzer may return
DetectPageFrom(lists) ==
  /\ pc = "detect_page"
  /\ \E o \in GetOutcomes(lists) :
       LET page_faces == o.faces
           main_face == IF page_faces # <<>>
                        THEN select_main_face(page_faces, ImgW, ImgH)
                        ELSE None
           stages == IF o.raises \/ page_faces = <<>>
                     THEN <<"detect_page">>
                     ELSE <<"detect_page", "select_main_face">>
       IN /\ trace' = trace \o stages
          /\ ext' = Append(ext, <<"get_page",
                 GetOutcomeName(o, main_face # None /\ main_face[1].kps)>>)
          /\ IF o.raises
             THEN /\ UNCHANGED frame
                  /\ Return(Failure("PAGE_FACE_DETECTION_FAILED", "str(e)"))
             ELSE IF main_face = None
             THEN /\ frame' = [frame EXCEPT !.page_faces = page_faces]
                  /\ Return(Failure("NO_FACE_IN_PAGE",
                                    "No face detected in page image"))
             ELSE IF ~ main_face[1].kps
             THEN \* None.astype raises AttributeError inside the try
                  /\ frame' = [frame EXCEPT !.page_faces = page_faces,
                                            !.main_face = main_face]
                  /\ Return(Failure("PAGE_FACE_DETECTION_FAILED", "str(e)"))
             ELSE /\ frame' = [frame EXCEPT !.page_faces = page_faces,
                                            !.main_face = main_face,
                                            !.page_bbox = <<main_face[1].bbox>>]
                  /\ Goto("compute_transform")
  /\ UNCHANGED <<env, glob, proc>>

DetectPage == DetectPageFrom(PageDetections)

\* outcome of one unguarded library call
CallOutcomes == {"raise", "ok"}

\* outcome of one cv2.estimateAffinePartial2D call
EstimateOutcomes == {"raise", "None", "ok"}

\* compute_similarity_transform falling back to the identity when the
\* 5-point estimate yields no solution either
compute_similarity_transform_Identity(e3, e5) ==
  IF e3 = "raise"
  THEN [raises |-> TRUE, transform |-> None, calls |-> <<<<"estimate3", e3>>>>]
  ELSE IF e3 = "ok"
  THEN [raises |-> FALSE, transform |-> <<"M3">>,
        calls |-> <<<<"estimate3", e3>>>>]
  ELSE [raises |-> e5 = "raise",
        transform |-> IF e5 = "ok" THEN <<"M5">> ELSE <<"identity">>,
        calls |-> <<<<"estimate3", e3>>, <<"estimate5", e5>>>>]

\* compute_similarity_transform(src_pts, dst_pts): e3 and e5 are the
\* outcomes of the 3-point and of the 5-point estimate
compute_similarity_transform(e3, e5) ==
  IF e3 = "raise"
  THEN [raises |-> TRUE, transform |-> None, calls |-> <<<<"estimate3", e3>>>>]
  ELSE IF e3 = "ok"
  THEN [raises |-> FALSE, transform |-> <<"M3">>,
        calls |-> <<<<"estimate3", e3>>>>]
  ELSE \* transform is None: fallback, use all 5 points
       [raises |-> e5 = "raise",
        transform |-> IF e5 = "ok" THEN <<"M5">> ELSE None,
        calls |-> <<<<"estimate3", e3>>, <<"estimate5", e5>>>>]

\* transform = compute_similarity_transform(...); if transform is None: ...
ComputeTransform ==
  /\ pc = "compute_transform"
  /\ \E e3 \in EstimateOutcomes, e5 \in EstimateOutcomes :
       LET t == compute_similarity_transform(e3, e5)
       IN /\ trace' = Append(trace, "estimate")
          /\ ext' = ext \o t.calls
          /\ IF t.raises
             THEN UNCHANGED frame /\ Raise
             ELSE /\ frame' = [frame EXCEPT !.transform = t.transform]
                  /\ IF t.transform = None
                     THEN Return(Failure("TRANSFORM_FAILED",
                                  "Could not compute similarity transform"))
                     ELSE Goto("warp")
  /\ UNCHANGED <<env, glob, proc>>

\* warped_hero = cv2.warpAffine(...)
Warp ==
  /\ pc = "warp"
  /\ \E o \in CallOutcomes :
       /\ Log("warpAffine", "warpAffine", o)
       /\ IF o = "raise" THEN Raise ELSE Goto("create_mask")
  /\ UNCHANGED <<env, glob, proc, frame>>

\* mask = create_hair_extended_mask(...) if include_hair else create_face_mask(...)
CreateMask ==
  /\ pc = "create_mask"
  /\ \E o \in CallOutcomes :
       LET kind == IF frame.include_hair THEN "hair" ELSE "face"
       IN /\ Log("mask", kind, o)
          /\ IF o = "raise"
             THEN UNCHANGED frame /\ Raise
             ELSE /\ frame' = [frame EXCEPT !.mask = <<kind>>]
                  /\ Goto("color_match")
  /\ UNCHANGED <<env, glob, proc>>

\* warped_hero_matched = color_match_lab(warped_hero, page, mask)
ColorMatch ==
  /\ pc = "color_match"
  /\ \E o \in CallOutcomes :
       /\ Log("color_match_lab", "color_match_lab", o)
       /\ IF o = "raise" THEN Raise ELSE Goto("blend_center")
  /\ UNCHANGED <<env, glob, proc, frame>>

\* int(p / q) for q > 0: Python's int() truncates toward zero
int_of(p, q) == IF p >= 0 THEN p \div q ELSE -((-p) \div q)

\* the blend center of lines 349-355 for a bbox with whole coordinates
blend_center(bbox, include_hair) ==
  LET center_x == int_of(bbox[1] + bbox[3], 2)
      center_y == int_of(bbox[2] + bbox[4], 2)
      face_h == bbox[4] - bbox[2]
  IN IF include_hair
     THEN <<center_x, int_of(10 * center_y - face_h, 10)>>
     ELSE <<center_x, center_y>>

\* the blend center moved up whatever mask is in use
BlendCenter_AlwaysShift ==
  /\ pc = "blend_center"
  /\ frame' = [frame EXCEPT !.center = <<blend_center(frame.page_bbox[1], TRUE)>>]
  /\ Goto("blend")
  /\ UNCHANGED <<env, glob, proc, trace, ext>>

\* center_x, center_y = ...; if include_hair: center_y = int(center_y - face_h * 0.1)
BlendCenter ==
  /\ pc = "blend_center"
  /\ frame' = [frame EXCEPT
                 !.center = <<blend_center(frame.page_bbox[1], frame.include_hair)>>]
  /\ Goto("blend")
  /\ UNCHANGED <<env, glob, proc, trace, ext>>

\* seamless_clone_safe reporting "seamless_clone" from the except branch too
seamless_clone_safe_SameLabel(primary, fallback) ==
  IF primary = "ok"
  THEN [raises |-> FALSE, blend_method |-> <<"seamless_clone">>,
        calls |-> <<<<"seamlessClone", primary>>>>]
  ELSE [raises |-> fallback = "raise",
        blend_method |-> IF fallback = "ok" THEN <<"seamless_clone">> ELSE None,
        calls |-> <<<<"seamlessClone", primary>>, <<"alpha_blend", fallback>>>>]

\* seamless_clone_safe(src, dst, mask, center): primary and fallback are the
\* outcomes of cv2.seamlessClone and of the alpha blend in the except branch
seamless_clone_safe(primary, fallback) ==
  IF primary = "ok"
  THEN [raises |-> FALSE, blend_method |-> <<"seamless_clone">>,
        calls |-> <<<<"seamlessClone", primary>>>>]
  ELSE [raises |-> fallback = "raise",
        blend_method |-> IF fallback = "ok" THEN <<"alpha_blend">> ELSE None,
        calls |-> <<<<"seamlessClone", primary>>, <<"alpha_blend", fallback>>>>]

\* result, blend_method = seamless_clone_safe(...)
Blend ==
  /\ pc = "blend"
  /\ \E primary \in CallOutcomes, fallback \in CallOutcomes :
       LET b == seamless_clone_safe(primary, fallback)
       IN /\ trace' = Append(trace, "blend")
          /\ ext' = ext \o b.calls
          /\ IF b.raises
             THEN UNCHANGED frame /\ Raise
             ELSE /\ frame' = [frame EXCEPT !.blend_method = b.blend_method]
                  /\ Goto("imwrite")
  /\ UNCHANGED <<env, glob, proc>>

\* outcome of cv2.imwrite: an exception (no encoder for the extension),
\* False (the file could not be written) or True
WriteOutcomes == {"raise", "False", "True"}

Success(f) ==
  [ok |-> TRUE, output_path |-> "output", blend_method |-> f.blend_method[1],
   hero_bbox |-> f.hero_bbox[1], page_bbox |-> f.page_bbox[1],
   transform_applied |-> TRUE]

\* cv2.imwrite(output_path, result); return {"ok": True, ...}
Save ==
  /\ pc = "imwrite"
  /\ \E o \in WriteOutcomes :
       /\ Log("imwrite", "imwrite", o)
       /\ IF o = "raise"
          THEN Raise
          ELSE /\ written' = (o = "True")
               /\ result' = <<Success(frame)>>
               /\ pc' = IF mode = "cli" THEN "main_print" ELSE "idle"
               /\ UNCHANGED <<raised, stdout, exit_code>>
  /\ UNCHANGED <<env, glob, proc, frame>>

\* -------------------------------------------------------------------- main
\* the process is started from the command line
MainStart ==
  /\ pc = "start"
  /\ argv' \in Argvs
  /\ mode' = "cli"
  /\ Goto("parse_args")
  /\ UNCHANGED <<env, glob, ncalls, frame, trace, ext>>

\* args = parser.parse_args(): exits with status 2 on a usage error
ParseArgs ==
  /\ pc = "parse_args"
  /\ IF argv.valid
     THEN Goto("check_dependencies")
     ELSE /\ pc' = "exited"
          /\ exit_code' = <<2>>
          /\ UNCHANGED <<result, raised, written, stdout>>
  /\ UNCHANGED <<env, glob, proc, frame, trace, ext>>

\* print(json.dumps(result)); sys.exit(1)
Emit(r) ==
  /\ stdout' = Append(stdout, r)
  /\ exit_code' = <<1>>
  /\ pc' = "exited"
  /\ UNCHANGED <<result, raised, written>>

\* if not DEPENDENCIES_AVAILABLE: ...
CheckDependencies ==
  /\ pc = "check_dependencies"
  /\ IF ~ DEPENDENCIES_AVAILABLE
     THEN Emit([ok |-> FALSE, error |-> "DEPENDENCIES_MISSING",
                message |-> "Required packages not installed",
                required_packages |-> <<"opencv-python", "numpy", "insightface">>])
     ELSE Goto("check_insightface")
  /\ UNCHANGED <<env, glob, proc, frame, trace, ext>>

\* if not INSIGHTFACE_AVAILABLE: ...
CheckInsightface ==
  /\ pc = "check_insightface"
  /\ IF ~ INSIGHTFACE_AVAILABLE
     THEN Emit(Failure("INSIGHTFACE_MISSING", "InsightFace not installed"))
     ELSE Goto("check_hero_exists")
  /\ UNCHANGED <<env, glob, proc, frame, trace, ext>>

\* CheckHeroExists without the os.path.exists test
CheckHeroExists_NoTest ==
  /\ pc = "check_hero_exists"
  /\ Goto("check_page_exists")
  /\ UNCHANGED <<env, glob, proc, frame, trace, ext>>

\* if not os.path.exists(args.hero_head): ...
CheckHeroExists ==
  /\ pc = "check_hero_exists"
  /\ IF argv.hero_head = "missing"
     THEN Emit(Failure("HERO_HEAD_NOT_FOUND", "Hero head not found"))
     ELSE Goto("check_page_exists")
  /\ UNCHANGED <<env, glob, proc, frame, trace, ext>>

\* CheckPageExists reporting a kind of its own
CheckPageExists_OtherKind ==
  /\ pc = "check_page_exists"
  /\ IF argv.page_image = "missing"
     THEN Emit(Failure("PAGE_NOT_FOUND", "Page image not found"))
     ELSE Goto("makedirs")
  /\ UNCHANGED <<env, glob, proc, frame, trace, ext>>

\* if not os.path.exists(args.page_image): ...
CheckPageExists ==
  /\ pc = "check_page_exists"
  /\ IF argv.page_image = "missing"
     THEN Emit(Failure("PAGE_IMAGE_NOT_FOUND", "Page image not found"))
     ELSE Goto("makedirs")
  /\ UNCHANGED <<env, glob, proc, frame, trace, ext>>

\* os.makedirs(output_dir, exist_ok=True), then the call of composite_face
\* with include_hair = not args.no_hair
MainComposite ==
  /\ pc = "makedirs"
  /\ \E o \in CallOutcomes :
       IF o = "raise"
       THEN /\ Raise
            /\ UNCHANGED <<frame, ncalls>>
       ELSE /\ frame' = NewFrame(argv.hero_head, argv.page_image, ~ argv.no_hair)
            /\ ncalls' = ncalls + 1
            /\ Goto("get_face_app")
  /\ UNCHANGED <<env, glob, mode, argv, trace, ext>>

\* print(json.dumps(result)); sys.exit(0 if result.get("ok") else 1)
MainPrint ==
  /\ pc = "main_print"
  /\ stdout' = Append(stdout, result[1])
  /\ exit_code' = IF result[1].ok THEN <<0>> ELSE <<1>>
  /\ pc' = "exited"
  /\ UNCHANGED <<env, glob, proc, frame, trace, ext, result, raised, written>>

\* ----------------------------------------------------------- specification
Next ==
  \/ CompositeCall
  \/ GetFaceApp
  \/ CheckFaceApp
  \/ LoadHero
  \/ LoadPage
  \/ CheckImages
  \/ DetectHero
  \/ DetectPage
  \/ ComputeTransform
  \/ Warp
  \/ CreateMask
  \/ ColorMatch
  \/ BlendCenter
  \/ Blend
  \/ Save
  \/ MainStart
  \/ ParseArgs
  \/ CheckDependencies
  \/ CheckInsightface
  \/ CheckHeroExists
  \/ CheckPageExists
  \/ MainComposite
  \/ MainPrint

Spec == Init /\ [][Next]_vars

TypeOK ==
  /\ pc \in {"start", "idle", "exited", "get_face_app", "check_face_app",
             "imread_hero", "imread_page", "check_images", "detect_hero",
             "detect_page", "compute_transform", "warp", "create_mask",
             "color_match", "blend_center", "blend", "imwrite", "parse_args",
             "check_dependencies", "check_insightface", "check_hero_exists",
             "check_page_exists", "makedirs", "main_print"}
  /\ mode \in {"none", "cli", "lib"}
  /\ ncalls \in 0..MaxCalls
  /\ Len(result) <= 1

\* -------------------------------------------- select_main_face, examined
\* faces of several sizes and placements inside the page image; the first
\* two differ in nothing the score depends on
FacePool ==
  { Face(0, 0, 2, 2, TRUE), Face(0, 0, 2, 2, FALSE), Face(6, 6, 8, 8, TRUE),
    Face(3, 3, 5, 5, TRUE), Face(1, 3, 3, 5, TRUE), Face(0, 0, 4, 4, TRUE),
    Face(2, 2, 6, 6, TRUE), Face(4, 4, 8, 8, TRUE) }

FaceLists == UNION {[1..n -> FacePool] : n \in 0..MaxFaces}

\* composite_face, called by a library user on two readable images, after
\* the analyzer was initialised and found a face in the hero image
SelectInit ==
  /\ DEPENDENCIES_AVAILABLE = TRUE
  /\ INSIGHTFACE_AVAILABLE = TRUE
  /\ _face_app = <<1>>
  /\ prepared = {1}
  /\ ctor_calls = 1
  /\ prepare_calls = 1
  /\ init_failed = 0
  /\ pc = "detect_page"
  /\ mode = "lib"
  /\ ncalls = 1
  /\ argv = NoArgv
  /\ \E ih \in BOOLEAN :
       frame = [NewFrame("ok", "ok", ih) EXCEPT
                  !.face_app = <<1>>, !.hero = <<"hero">>, !.page = <<"page">>,
                  !.hero_detected = TRUE, !.hero_bbox = << <<1, 1, 5, 5>> >>]
  /\ trace = <<"get_face_app", "imread_hero", "imread_page", "detect_hero">>
  /\ ext = << <<"prepare", "ok">>, <<"imread", "ok">>, <<"imread", "ok">>,
              <<"get_hero", "faces">> >>
  /\ result = None
  /\ raised = FALSE
  /\ written = FALSE
  /\ stdout = <<>>
  /\ exit_code = None

\* the page detection with any list of pool faces as the analyzer's answer
SelectNext == DetectPageFrom(FaceLists)

SelectSpec == SelectInit /\ [][SelectNext]_vars

\* --------------------------------------------- color_match_lab, examined
\* One LAB channel of an image is a sequence of NPix values in 0..255; the
\* loop of color_match_lab treats the three channels alike and separately,
\* so one channel is followed.  cv2.cvtColor is not modelled.
SrcLevels == {0, 1, 200}
TgtLevels == {0, 255}
MaskLevels == {128, 255}

RECURSIVE SumOver(_, _)
SumOver(f, I) ==
  IF I = {} THEN 0
  ELSE LET i == CHOOSE j \in I : TRUE IN f[i] + SumOver(f, I \ {i})

\* mask_bool = mask > 128; the pixels the statistics are taken over
stat_pixels(mask) ==
  LET mask_bool == {i \in DOMAIN mask : mask[i] > 128}
  IN IF mask_bool # {} THEN mask_bool ELSE DOMAIN mask

\* n * n * np.std(channel[I]) ^ 2, an integer (n the number of pixels in I)
var_nn(channel, I) ==
  Cardinality(I) * SumOver([i \in I |-> channel[i] * channel[i]], I)
  - SumOver(channel, I) * SumOver(channel, I)

\* p / q >= r / s for positive integers, by continued fractions (no product
\* is formed, so the operands may be as large as an integer)
RECURSIVE frac_ge(_, _, _, _)
frac_ge(p, q, r, s) ==
  IF p \div q > r \div s THEN TRUE
  ELSE IF p \div q < r \div s THEN FALSE
  ELSE IF r % s = 0 THEN TRUE
  ELSE IF p % q = 0 THEN FALSE
  ELSE frac_ge(s, r % s, q, p % q)

\* x * y >= z * w for naturals
prod_ge(x, y, z, w) ==
  IF z = 0 \/ w = 0 THEN TRUE
  ELSE IF x = 0 \/ y = 0 THEN FALSE
  ELSE frac_ge(x, z, w, y)

\* a * sqrt(P) >= b * sqrt(R), for naturals P and R
sqrt_ge(a, P, b, R) ==
  IF a >= 0 /\ b <= 0 THEN TRUE
  ELSE IF a >= 0 THEN prod_ge(a * a, P, b * b, R)
  ELSE IF b <= 0 THEN prod_ge(b * b, R, a * a, P)
  ELSE FALSE

\* (x - src_mean) * (tgt_std / src_std) + tgt_mean >= k, where the statistics
\* are those of the pixels I and src_std is raised to 1 when it is below 1
transfer_ge(x, k, src_channel, tgt_channel, I) ==
  LET n == Cardinality(I)
      src_var == var_nn(src_channel, I)
      src_var1 == IF src_var < n * n THEN n * n ELSE src_var
  IN sqrt_ge(n * x - SumOver(src_channel, I), var_nn(tgt_channel, I),
             n * k - SumOver(tgt_channel, I), src_var1)

\* (x - src_mean) * (tgt_std / src_std) + tgt_mean <= k
transfer_le(x, k, src_channel, tgt_channel, I) ==
  LET n == Cardinality(I)
      src_var == var_nn(src_channel, I)
      src_var1 == IF src_var < n * n THEN n * n ELSE src_var
  IN sqrt_ge(SumOver(src_channel, I) - n * x, var_nn(tgt_channel, I),
             SumOver(tgt_channel, I) - n * k, src_var1)

\* np.clip(v, 0, 255).astype(np.uint8) of the transferred value v of x: the
\* largest k in lo..hi with v >= k, and lo when there is none
RECURSIVE clip_uint8(_, _, _, _, _, _)
clip_uint8(lo, hi, x, src_channel, tgt_channel, I) ==
  IF lo = hi THEN lo
  ELSE LET mid == (lo + hi + 1) \div 2
       IN IF transfer_ge(x, mid, src_channel, tgt_channel, I)
          THEN clip_uint8(mid, hi, x, src_channel, tgt_channel, I)
          ELSE clip_uint8(lo, mid - 1, x, src_channel, tgt_channel, I)

\* the loop body with the statistics taken over the whole image whatever
\* the mask selects
color_match_channel_NoMask(src_channel, tgt_channel, mask) ==
  [i \in DOMAIN src_channel |->
     clip_uint8(0, 255, src_channel[i], src_channel, tgt_channel,
                DOMAIN src_channel)]

\* one channel of result_lab after the loop, the clip and the cast
color_match_channel(src_channel, tgt_channel, mask) ==
  [i \in DOMAIN src_channel |->
     clip_uint8(0, 255, src_channel[i], src_channel, tgt_channel,
                stat_pixels(mask))]

\* color_match_lab is about to be called on a source, a target and a mask
ColorInit ==
  /\ DEPENDENCIES_AVAILABLE = TRUE
  /\ INSIGHTFACE_AVAILABLE = TRUE
  /\ _face_app = None
  /\ prepared = {}
  /\ ctor_calls = 0
  /\ prepare_calls = 0
  /\ init_failed = 0
  /\ pc = "color_match_lab"
  /\ mode = "none"
  /\ ncalls = 0
  /\ argv = NoArgv
  /\ \E s \in [1..NPix -> SrcLevels], t \in [1..NPix -> TgtLevels],
        m \in [1..NPix -> MaskLevels] :
       frame = [source_lab |-> s, target_lab |-> t, mask |-> m,
                result_lab |-> None]
  /\ trace = <<>>
  /\ ext = <<>>
  /\ result = None
  /\ raised = FALSE
  /\ written = FALSE
  /\ stdout = <<>>
  /\ exit_code = None

\* the body of color_match_lab between the two color conversions
ColorMatchLab ==
  /\ pc = "color_match_lab"
  /\ frame' = [frame EXCEPT !.result_lab =
                 <<color_match_channel(frame.source_lab, frame.target_lab,
                                       frame.mask)>>]
  /\ pc' = "color_matched"
  /\ UNCHANGED <<env, glob, proc, trace, ext, out>>

ColorSpec == ColorInit /\ [][ColorMatchLab]_vars

\* ------------------------------------------------------------ observations
Range(s) == {s[i] : i \in 1..Len(s)}

IsPrefix(s, t) == Len(s) <= Len(t) /\ \A i \in 1..Len(s) : s[i] = t[i]

\* composite_face was called and has ended (returned or raised)
CompositeEnded ==
  /\ ncalls > 0
  /\ pc \in {"idle", "main_print", "exited"}

\* the process has emitted all it will emit for the current invocation
InvocationEnded ==
  \/ mode = "lib" /\ pc = "idle"
  \/ mode = "cli" /\ pc = "exited"

\* every result dict emitted so far: returned by composite_face or printed
Emitted == Range(result) \cup Range(stdout)

\* the analyzer was constructed, prepared or asked to detect in this call
AnalyzerTouched ==
  \E e \in Range(ext) : e[1] \in {"FaceAnalysis", "prepare", "get_hero", "get_page"}

\* the hero path of the current invocation does not exist
HeroMissing ==
  \/ mode = "cli" /\ argv.valid /\ argv.hero_head = "missing"
  \/ mode = "lib" /\ frame.hero_head_path = "missing"

\* external calls whose outcome makes their stage fail (the 3-point
\* estimate returning None and the primary blend raising have a fallback)
FailingCalls ==
  { <<"FaceAnalysis", "raise">>, <<"prepare", "raise">>,
    <<"imread", "missing">>, <<"imread", "unreadable">>,
    <<"get_hero", "raise">>, <<"get_hero", "empty">>, <<"get_hero", "nokps">>,
    <<"get_page", "raise">>, <<"get_page", "empty">>, <<"get_page", "nokps">>,
    <<"estimate3", "raise">>, <<"estimate5", "raise">>, <<"estimate5", "None">>,
    <<"warpAffine", "raise">>, <<"hair", "raise">>, <<"face", "raise">>,
    <<"color_match_lab", "raise">>, <<"alpha_blend", "raise">>,
    <<"imwrite", "raise">>, <<"imwrite", "False">> }

\* the external calls of the stages that follow the loading of the images
StageCalls ==
  {"get_hero", "get_page", "estimate3", "estimate5", "warpAffine", "hair",
   "face", "color_match_lab", "seamlessClone", "alpha_blend", "imwrite"}

\* ------------------------------------------------------------------ claims

\* C1: no exception escapes composite_face: whenever a call has ended it has
\* returned a dict that is the success variant or a failure variant with an
\* enumerated error kind and a message.
C1_NoExceptionEscapes ==
  CompositeEnded =>
    /\ ~ raised
    /\ result # None
    /\ \/ result[1].ok
       \/ /\ result[1].error \in EnumeratedKinds
          /\ "message" \in DOMAIN result[1]

\* C2 (as stated): every failure dict emitted by main or composite_face
\* carries an error that is one of the eight enumerated kinds.
C2_EightKinds ==
  \A r \in Emitted :
    ~ r.ok => "error" \in DOMAIN r /\ r.error \in EnumeratedKinds

\* C2 (amended): every failure dict emitted by main or composite_face carries
\* one error, which is one of the eight enumerated kinds or INSIGHTFACE_MISSING.
C2_NineKinds ==
  \A r \in Emitted :
    ~ r.ok => /\ "error" \in DOMAIN r
              /\ r.error \in EnumeratedKinds \cup {"INSIGHTFACE_MISSING"}

C2_Witness ==
  /\ pc = "exited"
  /\ \E r \in Range(stdout) : ~ r.ok /\ r.error = "INSIGHTFACE_MISSING"

\* C3: an invocation of main whose command line parsed ends with exactly one
\* JSON object on standard output, and with exit code 0 if that object has
\* ok=true and 1 if it has ok=false.
C3_OneJsonObject ==
  (mode = "cli" /\ argv.valid /\ pc = "exited") =>
    /\ Len(stdout) = 1
    /\ exit_code = IF stdout[1].ok THEN <<0>> ELSE <<1>>

\* C4 (as stated): when the hero path does not exist the invocation ends
\* with HERO_HEAD_NOT_FOUND, the analyzer neither initialised nor asked to
\* detect during it.
C4_HeroMissing ==
  (HeroMissing /\ InvocationEnded) =>
    /\ ~ AnalyzerTouched
    /\ \E r \in Emitted : ~ r.ok /\ r.error = "HERO_HEAD_NOT_FOUND"

\* C4 (amended): in a run of main whose command line parsed and whose
\* imports succeeded, a hero path that does not exist ends the run with
\* ok=false, HERO_HEAD_NOT_FOUND and exit code 1; composite_face is never
\* called and the analyzer is never constructed, prepared or asked to detect.
C4_HeroMissingCli ==
  (/\ mode = "cli" /\ argv.valid /\ argv.hero_head = "missing"
   /\ DEPENDENCIES_AVAILABLE /\ INSIGHTFACE_AVAILABLE) =>
    /\ ncalls = 0 /\ ctor_calls = 0 /\ prepare_calls = 0
    /\ ~ AnalyzerTouched
    /\ pc = "exited" =>
         /\ Len(stdout) = 1
         /\ ~ stdout[1].ok /\ stdout[1].error = "HERO_HEAD_NOT_FOUND"
         /\ exit_code = <<1>>

C4_Witness ==
  /\ mode = "cli" /\ pc = "exited" /\ argv.hero_head = "missing"
  /\ Len(stdout) = 1 /\ stdout[1].error = "HERO_HEAD_NOT_FOUND"

\* C5: when the analyzer is available and returns no face for the hero
\* image, the invocation ends with ok=false, NO_FACE_IN_HERO (exit code 1
\* from main), and the analyzer is never invoked on the page image.
C5_NoFaceInHero ==
  (frame.face_app # None /\ <<"get_hero", "empty">> \in Range(ext)) =>
    /\ \A e \in Range(ext) : e[1] # "get_page"
    /\ "detect_page" \notin Range(trace)
    /\ result # None /\ ~ result[1].ok /\ result[1].error = "NO_FACE_IN_HERO"
    /\ pc = "exited" =>
         /\ stdout = result
         /\ exit_code = <<1>>

C5_Witness ==
  /\ pc = "exited"
  /\ <<"get_hero", "empty">> \in Range(ext)
  /\ Len(stdout) = 1 /\ stdout[1].error = "NO_FACE_IN_HERO"

\* C6: once the analyzer has been initialised successfully (constructed and
\* prepared) it is never constructed or prepared again, the global handle
\* is never replaced or reset, and every later get_face_app returns it.
C6_InitOnce ==
  [][ (_face_app # None /\ _face_app[1] \in prepared) =>
        /\ _face_app' = _face_app
        /\ prepared' = prepared
        /\ ctor_calls' = ctor_calls
        /\ prepare_calls' = prepare_calls
        /\ pc = "get_face_app" => frame'.face_app = _face_app ]_vars

C6_Witness ==
  /\ ncalls >= 2
  /\ pc = "check_face_app"
  /\ frame.face_app = <<1>>
  /\ ctor_calls = 1 /\ prepared = {1}

\* C7: a failed analyzer initialisation is remembered: after a get_face_app
\* call whose initialisation failed no later call constructs or prepares an
\* analyzer, and every composite_face call ends with
\* FACE_DETECTOR_UNAVAILABLE.
C7_FailureRemembered ==
  [][ init_failed >= 1 =>
        /\ ctor_calls' = ctor_calls
        /\ prepare_calls' = prepare_calls
        /\ pc = "check_face_app" =>
             /\ result' # None
             /\ ~ result'[1].ok
             /\ result'[1].error = "FACE_DETECTOR_UNAVAILABLE" ]_vars

\* C8: a success result reports "alpha_blend" exactly when the primary
\* seamless clone raised in that invocation and "seamless_clone" otherwise;
\* a primary blend that raised never yields a failure result; the alpha
\* fallback is attempted only after the primary has raised.
C8_BlendMethod ==
  LET primaryRaised == <<"seamlessClone", "raise">> \in Range(ext)
  IN /\ (result # None /\ result[1].ok) =>
          /\ result[1].blend_method = "alpha_blend" <=> primaryRaised
          /\ result[1].blend_method = "seamless_clone" <=> ~ primaryRaised
     /\ primaryRaised => (result = None \/ result[1].ok)
     /\ \A i \in 1..Len(ext) :
          ext[i][1] = "alpha_blend" =>
            i > 1 /\ ext[i - 1] = <<"seamlessClone", "raise">>

C8_Witness ==
  /\ result # None /\ result[1].ok
  /\ result[1].blend_method = "alpha_blend"
  /\ <<"seamlessClone", "raise">> \in Range(ext)

\* C9 (as stated): the stages run in the stated order; the page image is
\* loaded only after the hero face has been detected.
C9_StatedOrder ==
  /\ IsPrefix(trace, StatedOrder)
  /\ \A i \in 1..Len(trace) :
       trace[i] = "imread_page" => \E j \in 1..(i - 1) : trace[j] = "detect_hero"

\* C9 (amended): the stages run in the order of the code, none skipped or
\* revisited: both images are loaded before any detection, so
\* NO_FACE_IN_HERO is reported only after the page image has been loaded and
\* found readable, and an unreadable page image is reported
\* (PAGE_IMAGE_NOT_FOUND) before the hero face is looked for.
C9_CodeOrder ==
  /\ IsPrefix(trace, CodeOrder)
  /\ \A r \in Range(result) :
       /\ (~ r.ok /\ r.error = "NO_FACE_IN_HERO") =>
            /\ trace = SubSeq(CodeOrder, 1, 4)
            /\ frame.page # None
       /\ (~ r.ok /\ r.error = "PAGE_IMAGE_NOT_FOUND") =>
            trace = SubSeq(CodeOrder, 1, 3)
       /\ r.ok => trace = CodeOrder

C9_Witness ==
  /\ result # None /\ ~ result[1].ok /\ result[1].error = "NO_FACE_IN_HERO"
  /\ trace = <<"get_face_app", "imread_hero", "imread_page", "detect_hero">>

\* C10: once a stage of an invocation has failed no later stage (detection,
\* selection, transform, warp, mask, color match, blend, save) executes, the
\* output image is not written, and the invocation ends in a failure result
\* with one enumerated error kind.
C10_FailFast ==
  \A i \in 1..Len(ext) :
    ext[i] \in FailingCalls =>
      /\ \A j \in (i + 1)..Len(ext) : ext[j][1] \notin StageCalls
      /\ ~ written
      /\ CompositeEnded =>
           /\ result # None
           /\ ~ result[1].ok
           /\ result[1].error \in EnumeratedKinds

\* C11: the 5-landmark estimate is attempted only when the 3-landmark
\* estimate yielded no solution; when both yield none composite_face returns
\* TRANSFORM_FAILED, no warp, mask, color-match, blend or save step runs, and
\* the transform in use is never anything but the result of an estimate.
C11_TransformFallback ==
  /\ \A i \in 1..Len(ext) :
       ext[i][1] = "estimate5" => i > 1 /\ ext[i - 1] = <<"estimate3", "None">>
  /\ (<<"estimate3", "None">> \in Range(ext)
      /\ <<"estimate5", "None">> \in Range(ext)) =>
       /\ result = <<Failure("TRANSFORM_FAILED",
                             "Could not compute similarity transform")>>
       /\ ~ raised /\ ~ written
       /\ frame.transform = None
       /\ ext[Len(ext)] = <<"estimate5", "None">>
       /\ trace[Len(trace)] = "estimate"
  /\ frame.transform # None =>
       \/ frame.transform = <<"M3">> /\ <<"estimate3", "ok">> \in Range(ext)
       \/ frame.transform = <<"M5">> /\ <<"estimate5", "ok">> \in Range(ext)
  /\ "warpAffine" \in Range(trace) => frame.transform # None

C11_Witness ==
  /\ result # None /\ ~ result[1].ok /\ result[1].error = "TRANSFORM_FAILED"
  /\ <<"estimate5", "None">> \in Range(ext)

\* the page detection has run and the analyzer returned a list
PageListed ==
  /\ pc # "detect_page"
  /\ Len(ext) >= 5
  /\ ext[5][1] = "get_page" /\ ext[5][2] # "raise"

IsSquare(n) == \E r \in 0..n : r * r = n

Root(n) == CHOOSE r \in 0..n : r * r = n

\* the score of a face whose distance to the image center is rational
score_int(f) == area(f.bbox) - 5 * Root(dist2x4(f.bbox, ImgW, ImgH))

C13_AreaDominates ==
  (PageListed /\ Len(frame.page_faces) >= 2) =>
    LET faces == frame.page_faces
    IN \A i \in 1..Len(faces) :
         (\A j \in 1..Len(faces) :
            j # i => area(faces[i].bbox) >= 2 * area(faces[j].bbox))
         => frame.main_face = <<faces[i]>>

\* C14: the hair-extended mask is the mask used exactly when --no-hair is
\* absent, whether or not --include-hair is given; the blend center is the
\* page bbox center (in whole pixels), moved up by 10% of the bbox height
\* (to the whole pixel above) exactly when the hair-extended mask is the
\* mask used.
C14_HairMaskAndCenter ==
  /\ (mode = "cli" /\ frame.mask # None) =>
       (frame.mask = <<"hair">> <=> ~ argv.no_hair)
  /\ frame.mask # None =>
       /\ frame.mask \in {<<"hair">>, <<"face">>}
       /\ frame.mask = <<"hair">> <=> frame.include_hair
  /\ frame.center # None =>
       LET b == frame.page_bbox[1]
           c == frame.center[1]
           h == b[4] - b[2]
           \* the whole pixel at or left of / above the bbox center
           cx == CHOOSE x \in 0..ImgW : 2 * x <= b[1] + b[3] /\ b[1] + b[3] < 2 * x + 2
           cy == CHOOSE y \in 0..ImgH : 2 * y <= b[2] + b[4] /\ b[2] + b[4] < 2 * y + 2
       IN /\ frame.mask # None
          /\ c[1] = cx
          /\ frame.mask = <<"face">> => c[2] = cy
          /\ frame.mask = <<"hair">> =>
               /\ c[2] < cy
               /\ 10 * (cy - c[2]) >= h
               /\ 10 * (cy - c[2]) < h + 10

C14_Witness ==
  /\ mode = "cli" /\ argv.no_hair /\ argv.include_hair_flag
  /\ frame.mask = <<"face">>
  /\ frame.center # None
  /\ frame.center[1][2] * 2 = frame.page_bbox[1][2] + frame.page_bbox[1][4]

\* the pixels of the statistics of the call examined, and the sums over them
CmPixels == stat_pixels(frame.mask)

\* a pixel of the statistics whose transferred value left 0..255
CmClipped ==
  \E i \in CmPixels :
    \/ ~ transfer_ge(frame.source_lab[i], 0, frame.source_lab, frame.target_lab, CmPixels)
    \/ ~ transfer_le(frame.source_lab[i], 255, frame.source_lab, frame.target_lab, CmPixels)

\* the mean of the result over the pixels is within one unit of the target's
CmMeanKept ==
  LET res == SumOver(frame.result_lab[1], CmPixels)
      tgt == SumOver(frame.target_lab, CmPixels)
      n == Cardinality(CmPixels)
  IN tgt - n <= res /\ res <= tgt + n

C16_SuccessMeansWritten ==
  (result # None /\ result[1].ok) => written

\* C17: get_face_app returns a handle only when construction and prepare
\* both succeeded: the handle composite_face holds, and so the one it runs
\* detection with, is a prepared analyzer.
C17_OnlyPreparedReturned ==
  (mode # "none" /\ frame.face_app # None) => frame.face_app[1] \in prepared

\* the stages after the selection of the main face, and their external calls
AfterSelection ==
  {"estimate", "warpAffine", "mask", "color_match_lab", "blend", "imwrite"}

AfterDetectionCalls ==
  {"estimate3", "estimate5", "warpAffine", "hair", "face", "color_match_lab",
   "seamlessClone", "alpha_blend", "imwrite"}

\* the invocation has ended with the failure kind, nothing raised, no stage
\* after page detection and selection ran
EndedWith(kind) ==
  /\ result # None /\ ~ result[1].ok /\ result[1].error = kind
  /\ ~ raised
  /\ pc \in {"idle", "main_print", "exited"}
  /\ Range(trace) \cap AfterSelection = {}
  /\ \A e \in Range(ext) : e[1] \notin AfterDetectionCalls
  /\ ~ written

\* C18: an analyzer failure is reported by the stage it occurs in: the
\* analyzer raising on the hero image, or its best hero face having no
\* keypoints, ends the invocation with NO_FACE_IN_HERO and the analyzer is
\* not run on the page; the analyzer raising on the page image, or the main
\* page face having no keypoints, ends it with PAGE_FACE_DETECTION_FAILED; an
\* empty page detection ends it with NO_FACE_IN_PAGE.  No exception escapes
\* and no later stage runs.
C18_AnalyzerFailureByStage ==
  /\ (\E o \in {"raise", "nokps"} : <<"get_hero", o>> \in Range(ext)) =>
       /\ EndedWith("NO_FACE_IN_HERO")
       /\ \A e \in Range(ext) : e[1] # "get_page"
       /\ "detect_page" \notin Range(trace)
  /\ (\E o \in {"raise", "nokps"} : <<"get_page", o>> \in Range(ext)) =>
       EndedWith("PAGE_FACE_DETECTION_FAILED")
  /\ <<"get_page", "raise">> \in Range(ext) => "select_main_face" \notin Range(trace)
  /\ <<"get_page", "empty">> \in Range(ext) =>
       /\ EndedWith("NO_FACE_IN_PAGE")
       /\ "select_main_face" \notin Range(trace)

\* a page whose main face has no keypoints was reported, after a hero face
\* was found
C18_Witness ==
  /\ pc = "idle" /\ mode = "lib"
  /\ <<"get_hero", "faces">> \in Range(ext)
  /\ <<"get_page", "nokps">> \in Range(ext)
  /\ frame.main_face # None /\ ~ frame.main_face[1].kps
  /\ result # None /\ result[1].error = "PAGE_FACE_DETECTION_FAILED"

====
